---------------------------- MODULE Spec2Model ----------------------------
(***************************************************************************)
(* State-machine model of the dumbbell chart's ViewModelManager            *)
(* (src/src/dom.ts, lines 441-948) and of BehaviorManager.renderSelection  *)
(* (src/src/behavior.ts, lines 141-159).                                   *)
(*                                                                         *)
(* Visual.update (src/unnamed/part_000, lines 312-376) is modelled with    *)
(* the viewModel object the behaviour is bound to, which is the manager's  *)
(* current viewModel ("current") or an object the manager has replaced     *)
(* since ("stale").  The rendering events of update and of the promise of  *)
(* ChartManager.rebindCategories (src/src/chart.ts, lines 140-269) are     *)
(* followed in the specification SpecHost, LandingPageManager              *)
(* (src/src/landing.ts) in the specification SpecLanding.                  *)
(*                                                                         *)
(* JavaScript values are encoded as follows.  An optional number (a        *)
(* variable that may be undefined, a highlight entry that may be null) is  *)
(* a sequence: << >> for undefined/null, <<v>> for the number v.  A        *)
(* selection id is the record of the keys given to the selection id        *)
(* builder, "" standing for a key that was not given; ISelectionId.equals  *)
(* is equality of these records.  The selected flag of an entity is kept   *)
(* by its truthiness (undefined and false are both FALSE).                 *)
(***************************************************************************)
EXTENDS Integers, Sequences, FiniteSets, TLC

VARIABLES
    viewModel,        \* ViewModelManager.viewModel
    categoryColumn,   \* ViewModelManager.categoryColumn
    valueGroupings,   \* ViewModelManager.valueGroupings
    result,           \* how the last mapDataView call ended: "none", "returned", "threw"
    last,             \* the last operation made on the ViewModelManager on its own and
                      \* its argument; for mapDataView the kind of its dataView and
                      \* whether it is the data mapped before
    chart,            \* what the last Visual.update call did with the ChartManager
    bound,            \* the viewModel object the BehaviorManager's options hold
    events,           \* the rendering events signalled for the options of the last two
                      \* Visual.update calls, and the promise of their transitions
    landing           \* the LandingPageManager, and the handleDisplay calls made on it

vars ==
    <<viewModel, categoryColumn, valueGroupings, result, last, chart, bound, events,
      landing>>

-----------------------------------------------------------------------------
(* Bounds and input domains *)

\* Largest number of entities the interactivity service marks selected at once
MaxSelected == 2

\* Largest number of tooltip-role columns per group
MaxTooltips == 1

\* Largest number of handleDisplay calls followed on the LandingPageManager
MaxCalls == 7

\* Category values of the category column (a dataView holds each at most once)
CategoryNames == {"A", "B"}

\* Series names, in the order the host returns them
SeriesNames == <<"G1", "G2">>

\* Measure values
Values == {-1, 0, 1}

-----------------------------------------------------------------------------
(* JavaScript values *)

Null == << >>

Some(v) == <<v>>

NoHighlights == [has |-> FALSE, arr |-> << >>]

Highlights(arr) == [has |-> TRUE, arr |-> arr]

Min2(a, b) == IF a <= b THEN a ELSE b

Max2(a, b) == IF a >= b THEN a ELSE b

\* acc || v, for acc an optional number: undefined and 0 are falsy
JsOrOpt(acc, v) == IF acc = Null \/ acc = Some(0) THEN v ELSE acc[1]

\* n || v, for n a number: 0 is falsy
JsOrNum(n, v) == IF n = 0 THEN v ELSE n

-----------------------------------------------------------------------------
(* Settings *)

DefaultSettings ==
    [categoryAxis |-> [orientation |-> "left", innerPadding |-> 20],
     dataPoints   |-> [formatStringMissing |-> "#,##0.00"]]

SettingsSet == {DefaultSettings}

\* settings of the ViewModel built by the field initialiser (no settings given)
NoSettings ==
    [categoryAxis |-> [orientation |-> "", innerPadding |-> 0],
     dataPoints   |-> [formatStringMissing |-> ""]]

-----------------------------------------------------------------------------
(* ViewModelManager: pure parts *)

MarginPad == 15

NullAxis == [isNull |-> TRUE]

\* calculateMargins() called without tick label dimensions
calculateMarginsDefault ==
    [top |-> MarginPad, right |-> MarginPad, bottom |-> MarginPad, left |-> MarginPad]

getNewViewModel(settings) ==
    [isValid       |-> FALSE,
     margin        |-> calculateMarginsDefault,
     categories    |-> << >>,
     groups        |-> << >>,
     settings      |-> settings,
     categoryAxis  |-> NullAxis,
     valueAxis     |-> NullAxis,
     minValue      |-> 0,
     maxValue      |-> 0,
     hasSelection  |-> FALSE,
     hasHighlights |-> FALSE,
     primaryFormatString |-> ""]

isDataViewValid(dataView) ==
    /\ dataView.present
    /\ dataView.hasCategorical
    /\ dataView.hasCategories
    /\ Len(dataView.categories) = 1
    /\ dataView.hasValues
    /\ Len(dataView.values) > 0

\* The view of an entity the interactivity service works with
Selectable(e) == [identity |-> e.identity, selected |-> e.selected]

RECURSIVE Flatten(_)
Flatten(ss) == IF ss = << >> THEN << >> ELSE Head(ss) \o Flatten(Tail(ss))

\* getSelectableDataPoints without the distinct group/series selectors
getSelectableDataPointsNoGroups(vm) ==
    Flatten([ci \in 1..Len(vm.categories) |->
                <<Selectable(vm.categories[ci])>> \o
                [gi \in 1..Len(vm.categories[ci].groups) |->
                    Selectable(vm.categories[ci].groups[gi])]])

getSelectableDataPoints(vm) ==
    Flatten([ci \in 1..Len(vm.categories) |->
                <<Selectable(vm.categories[ci])>> \o
                [gi \in 1..Len(vm.categories[ci].groups) |->
                    Selectable(vm.categories[ci].groups[gi])]])
    \o [gi \in 1..Len(vm.groups) |-> Selectable(vm.groups[gi])]

\* Array.prototype.find: the first of the matching indices, 0 when there is none
FirstIndex(matching) ==
    IF matching = {} THEN 0
    ELSE CHOOSE i \in matching : \A j \in matching : i <= j

SelectionIdEquals(a, b) == a = b

\* isSelected that reports a data point found, whatever its selected flag
isSelectedFound(initialSelection, selectionId) ==
    FirstIndex({j \in 1..Len(initialSelection) :
                  SelectionIdEquals(selectionId, initialSelection[j].identity)}) # 0

\* isSelected that carries no selected flag over
isSelectedDropped(initialSelection, selectionId) == FALSE

isSelected(initialSelection, selectionId) ==
    LET i == FirstIndex({j \in 1..Len(initialSelection) :
                           SelectionIdEquals(selectionId, initialSelection[j].identity)})
    IN  IF i = 0 THEN FALSE ELSE initialSelection[i].selected

getCategorySelectionId(column, ci) ==
    [category |-> column.values[ci], series |-> "", measure |-> ""]

getGroupSelectionId(g) ==
    [category |-> "", series |-> g.name, measure |-> ""]

getDataPointSelectionId(column, ci, g, measure) ==
    [category |-> column.values[ci], series |-> g.name, measure |-> measure.queryName]

-----------------------------------------------------------------------------
(* ViewModelManager: mapping a dataView *)

RECURSIVE DistinctGroupNames(_)
DistinctGroupNames(columns) ==
    IF columns = << >> THEN << >>
    ELSE LET rest == DistinctGroupNames(SubSeq(columns, 1, Len(columns) - 1))
             name == columns[Len(columns)].source.groupName
         IN  IF \E i \in 1..Len(rest) : rest[i] = name THEN rest ELSE Append(rest, name)

\* DataViewValueColumns.grouped(): the value columns of each series, in order
grouped(columns) ==
    LET names == DistinctGroupNames(columns)
    IN  [i \in 1..Len(names) |->
            [name    |-> names[i],
             objects |-> columns[FirstIndex({j \in 1..Len(columns) :
                                   columns[j].source.groupName = names[i]})].objects,
             values  |-> SelectSeq(columns, LAMBDA c : c.source.groupName = names[i])]]

\* viewModel.hasHighlights, from the value columns
hasHighlightsOf(columns) ==
    Len(SelectSeq(columns, LAMBDA vg : vg.highlights.has)) > 0

\* viewModel.hasSelection, from the selectable data points taken before the rebuild
hasSelectionOf(initialSelection) ==
    Len(SelectSeq(initialSelection, LAMBDA dp : dp.selected)) > 0

\* initialSelectionOf taken after the viewModel has been reset
initialSelectionAfterReset(vm) == getSelectableDataPoints(getNewViewModel(NoSettings))

\* initialSelectionOf that takes every data point for selected while the viewModel's
\* hasSelection is set
initialSelectionFlagged(vm) ==
    LET dataPoints == getSelectableDataPoints(vm)
    IN  [i \in 1..Len(dataPoints) |->
            [dataPoints[i] EXCEPT !.selected = @ \/ vm.hasSelection]]

\* The snapshot of selectable data points mapDataView works with
initialSelectionOf(vm) == getSelectableDataPoints(vm)

primaryFormatStringOf(dataView, settings) ==
    LET cols == dataView.metadata.columns
        i    == FirstIndex({j \in 1..Len(cols) :
                              cols[j].roles = "measure" /\ cols[j].groupName = ""})
    IN  IF i # 0 /\ cols[i].format # "" THEN cols[i].format
        ELSE settings.dataPoints.formatStringMissing

measureOf(g) ==
    g.values[FirstIndex({j \in 1..Len(g.values) : g.values[j].source.roles = "measure"})]

tooltipsOf(g) == SelectSeq(g.values, LAMBDA tt : tt.source.roles = "tooltips")

\* categoryHighlightedOf with "some data point" in place of "all data points"
categoryHighlightedAny(hasHighlights, groups) ==
    hasHighlights /\ Len(SelectSeq(groups, LAMBDA g : g.highlighted)) > 0

\* Highlight status of a category: all of its data points are highlighted
categoryHighlightedOf(hasHighlights, groups) ==
    hasHighlights /\ Len(SelectSeq(groups, LAMBDA g : g.highlighted)) = Len(groups)

\* Highlight status of a distinct group: none of its measure's highlights is null
groupHighlightedOf(hasHighlights, measure) ==
    hasHighlights /\
    Len(SelectSeq(measure.highlights.arr, LAMBDA h : h # Null)) = Len(measure.highlights.arr)

\* Running extent of the values met so far
foldMin(acc, v) == Min2(JsOrOpt(acc, v), v)

foldMax(acc, v) == Max2(JsOrOpt(acc, v), v)

datasetMin(minValue, categoryMinValue) ==
    Min2(JsOrNum(minValue, categoryMinValue), categoryMinValue)

datasetMax(maxValue, categoryMaxValue) ==
    Max2(JsOrNum(maxValue, categoryMaxValue), categoryMaxValue)

\* valueFormatter.format(d, format) for the format string "#,##0.00": two decimal
\* places, the sign in front
formatValue(format, d) ==
    CASE d = -1 -> "-1.00"
      [] d = 0  -> "0.00"
      [] d = 1  -> "1.00"

\* host.colorPalette.getColor(groupName).value: the palette gives a name the same
\* color every time it is asked
getColor(groupName) ==
    CASE groupName = "G1" -> "#01B8AA"
      [] groupName = "G2" -> "#374649"
      [] OTHER            -> "#FD625E"

\* A fill property of the formatting pane holding a solid color
SolidFill(color) == Some([solid |-> Some([color |-> color])])

\* g.objects?.dataPoints, for the optional objects of a group
dataPointsOf(objects) == IF objects = Null THEN Null ELSE objects[1].dataPoints

\* getFillColorByPropertyName that takes the palette's color whatever is stored
getFillColorByPropertyNameDefault(object, defaultColor) == defaultColor

\* dataViewObject.getFillColorByPropertyName(object, 'fillColor', defaultColor): the
\* solid color stored under the property, the default when there is none
getFillColorByPropertyName(object, defaultColor) ==
    IF object = Null THEN defaultColor
    ELSE LET value == object[1].fillColor
         IN  IF value = Null \/ value[1].solid = Null THEN defaultColor
             ELSE value[1].solid[1].color

\* An entry of the tooltip; header holds the parts of `${categoryName} - ${groupName}`
\* and is absent (empty) on every entry but the first, as is opacity on the first
TooltipItem(header, displayName, value, color, opacity) ==
    [header |-> header, displayName |-> displayName, value |-> value,
     color |-> color, opacity |-> opacity]

\* The entries getTooltipData adds for the columns of the tooltips data role
tooltipColumnItems(tooltips, color, ci, formatStringMissing) ==
    [t \in 1..Len(tooltips) |->
        TooltipItem(<< >>, tooltips[t].source.displayName,
                    formatValue(IF tooltips[t].source.format # ""
                                THEN tooltips[t].source.format
                                ELSE formatStringMissing,
                                tooltips[t].values[ci]),
                    color, "0")]

\* getTooltipData that leaves the highlighted entry out
getTooltipDataNoHighlight(header, measure, groupValueFormatted, color, pointHighlighted, pointHighlightedValueFormatted, tooltipItems) ==
    <<TooltipItem(header, measure.source.displayName, groupValueFormatted, color, "")>>
    \o tooltipItems

\* getTooltipData: header stands for categoryName and groupName, tooltipItems for
\* the entries of the tooltips columns at the category index
getTooltipData(header, measure, groupValueFormatted, color, pointHighlighted, pointHighlightedValueFormatted, tooltipItems) ==
    <<TooltipItem(header, measure.source.displayName, groupValueFormatted, color, "")>>
    \o (IF pointHighlighted
        THEN <<TooltipItem(<< >>, "Highlighted", pointHighlightedValueFormatted,
                           color, "0")>>
        ELSE << >>)
    \o tooltipItems

\* One iteration of the callback of valueGroupings.grouped().map, for the group g
\* of the category at index ci (1-based).  acc holds the variables the callback
\* assigns and the data points returned so far.  Reading measure.highlights[ci]
\* of a column without highlights throws a TypeError.  The formatted highlight
\* value is read by getTooltipData for a highlighted data point only.
mapGroup(acc, vm, column, initialSelection, ci, g) ==
    LET measure       == measureOf(g)
        tooltips      == tooltipsOf(g)
        hasHighlights == vm.hasHighlights
    IN  IF hasHighlights /\ ~measure.highlights.has
        THEN [acc EXCEPT !.threw = TRUE]
        ELSE
        LET groupName             == g.name
            groupSelectionId      == getGroupSelectionId(g)
            dataPointSelectionId  == getDataPointSelectionId(column, ci, g, measure.source)
            pointHighlighted      == hasHighlights /\ measure.highlights.arr[ci] # Null
            groupValue            == measure.values[ci]
            pointHighlightedValue == IF pointHighlighted THEN measure.highlights.arr[ci]
                                     ELSE Null
            groupValueFormatted   == formatValue(vm.primaryFormatString, groupValue)
            pointHighlightedValueFormatted ==
                IF pointHighlighted
                THEN formatValue(vm.primaryFormatString, pointHighlightedValue[1])
                ELSE ""
            color == getFillColorByPropertyName(dataPointsOf(g.objects),
                                                getColor(groupName))
            tooltipData ==
                getTooltipData(<<column.values[ci], groupName>>, measure,
                    groupValueFormatted, color, pointHighlighted,
                    pointHighlightedValueFormatted,
                    tooltipColumnItems(tooltips, color, ci,
                                       vm.settings.dataPoints.formatStringMissing))
            distinctGroup ==
                [name             |-> groupName,
                 color            |-> color,
                 groupSelectionId |-> groupSelectionId,
                 value            |-> groupValue,
                 identity         |-> groupSelectionId,
                 selected         |-> isSelected(initialSelection, groupSelectionId),
                 highlighted      |-> groupHighlightedOf(hasHighlights, measure)]
            dataPoint ==
                [name                 |-> groupName,
                 groupSelectionId     |-> groupSelectionId,
                 dataPointSelectionId |-> dataPointSelectionId,
                 value                |-> groupValue,
                 valueFormatted       |-> groupValueFormatted,
                 highlightedValue     |-> pointHighlightedValue,
                 color                |-> color,
                 identity             |-> dataPointSelectionId,
                 selected             |-> isSelected(initialSelection, dataPointSelectionId),
                 tooltipData          |-> tooltipData,
                 highlighted          |-> pointHighlighted]
        IN  [threw            |-> FALSE,
             categoryMinValue |-> Some(foldMin(acc.categoryMinValue, groupValue)),
             categoryMaxValue |-> Some(foldMax(acc.categoryMaxValue, groupValue)),
             vmGroups         |-> IF ci = 1 THEN Append(acc.vmGroups, distinctGroup)
                                  ELSE acc.vmGroups,
             groups           |-> Append(acc.groups, dataPoint)]

RECURSIVE mapGroups(_, _, _, _, _, _, _)
mapGroups(acc, vm, column, initialSelection, ci, gs, gi) ==
    IF acc.threw \/ gi > Len(gs) THEN acc
    ELSE mapGroups(mapGroup(acc, vm, column, initialSelection, ci, gs[gi]),
                   vm, column, initialSelection, ci, gs, gi + 1)

\* One iteration of the callback of categoryColumn.values.forEach
mapCategory(st, column, gs, initialSelection, ci) ==
    LET vm  == st.vm
        acc == mapGroups([threw |-> FALSE, categoryMinValue |-> Null,
                          categoryMaxValue |-> Null, vmGroups |-> vm.groups,
                          groups |-> << >>],
                         vm, column, initialSelection, ci, gs, 1)
        categorySelectionId == getCategorySelectionId(column, ci)
    IN  IF acc.threw
        THEN [vm |-> [vm EXCEPT !.groups = acc.vmGroups], threw |-> TRUE]
        ELSE [threw |-> FALSE,
              vm |-> [vm EXCEPT
                !.groups     = acc.vmGroups,
                !.minValue   = datasetMin(vm.minValue, acc.categoryMinValue[1]),
                !.maxValue   = datasetMax(vm.maxValue, acc.categoryMaxValue[1]),
                !.categories = Append(vm.categories,
                    [name        |-> column.values[ci],
                     groups      |-> acc.groups,
                     min         |-> acc.categoryMinValue[1],
                     max         |-> acc.categoryMaxValue[1],
                     selectionId |-> categorySelectionId,
                     identity    |-> categorySelectionId,
                     selected    |-> isSelected(initialSelection, categorySelectionId),
                     highlighted |-> categoryHighlightedOf(vm.hasHighlights, acc.groups)])]]

RECURSIVE mapCategories(_, _, _, _, _)
mapCategories(st, column, gs, initialSelection, ci) ==
    IF st.threw \/ ci > Len(column.values) THEN st
    ELSE mapCategories(mapCategory(st, column, gs, initialSelection, ci),
                       column, gs, initialSelection, ci + 1)

mapCategoryDataToViewModel(vm, column, columns, initialSelection) ==
    mapCategories([vm |-> vm, threw |-> FALSE], column, grouped(columns),
                  initialSelection, 1)

\* mapDataView from the point where the dataView has been found valid
mapValidDataView(m, dataView, settings) ==
    LET initialSelection == initialSelectionOf(m.viewModel)
        column  == dataView.categories[1]
        columns == dataView.values
        vm == [getNewViewModel(settings) EXCEPT
                 !.isValid       = TRUE,
                 !.hasSelection  = hasSelectionOf(initialSelection),
                 !.hasHighlights = hasHighlightsOf(columns),
                 !.primaryFormatString = primaryFormatStringOf(dataView, settings)]
        st == mapCategoryDataToViewModel(vm, column, columns, initialSelection)
    IN  [viewModel      |-> st.vm,
         categoryColumn |-> column,
         valueGroupings |-> columns,
         result         |-> IF st.threw THEN "threw" ELSE "returned"]

\* mapDataView that, on an invalid dataView, only clears isValid of the viewModel it has
mapDataViewStale(m, dataView, settings) ==
    IF ~isDataViewValid(dataView)
    THEN [m EXCEPT !.viewModel.isValid = FALSE, !.result = "returned"]
    ELSE mapValidDataView(m, dataView, settings)

\* The manager after mapDataView(dataView, settings), from the manager m before it
mapDataView(m, dataView, settings) ==
    IF ~isDataViewValid(dataView)
    THEN [m EXCEPT !.viewModel = getNewViewModel(settings), !.result = "returned"]
    ELSE mapValidDataView(m, dataView, settings)

-----------------------------------------------------------------------------
(* shouldDimPoint / shouldEmphasizePoint of the manager's current viewModel *)

shouldDimPoint(vm, dataPoint) ==
    \/ vm.hasSelection /\ ~dataPoint.selected
    \/ vm.hasHighlights /\ ~dataPoint.highlighted

shouldEmphasizePoint(dataPoint) == dataPoint.selected

\* renderSelection that leaves viewModel.hasSelection alone
renderSelectionKeep(vm, hasSelection) == vm

\* BehaviorManager.renderSelection(hasSelection), on the viewModel it is bound to
renderSelection(vm, hasSelection) == [vm EXCEPT !.hasSelection = hasSelection]

-----------------------------------------------------------------------------
(* ViewModelManager.updateAxes: margins and axes for a viewport *)

Orientations == {"left", "bottom"}

\* The settings objects the update calls hand over: the defaults, in either orientation
OrientationSettings ==
    {[DefaultSettings EXCEPT !.categoryAxis.orientation = o] : o \in Orientations}

\* Values of categoryAxis.innerPadding, a percentage, from the range the formatting
\* pane allows: its ends 0 and 50
InnerPaddings == {0, 50}

\* The settings objects in either orientation, with every inner padding
PaddingSettings ==
    {[DefaultSettings EXCEPT !.categoryAxis.orientation = o,
                             !.categoryAxis.innerPadding = p] :
     o \in Orientations, p \in InnerPaddings}

\* The viewports (width/height) the host hands over
Viewports == {[width |-> 200, height |-> 100], [width |-> 320, height |-> 240]}

\* textMeasurementService.measureSvgTextWidth(textProperties, text), in pixels, for
\* the tick font of the default settings
measureSvgTextWidth(text) ==
    CASE text = "A"     -> 8
      [] text = "B"     -> 10
      [] text = "-1.00" -> 28
      [] text = "0.00"  -> 22
      [] text = "1.00"  -> 22

\* textMeasurementService.measureSvgTextHeight(textProperties, text), in pixels
measureSvgTextHeight(text) ==
    CASE text = "A"     -> 11
      [] text = "B"     -> 13
      [] text = "-1.00" -> 12
      [] text = "0.00"  -> 12
      [] text = "1.00"  -> 12

\* The forEach of the tick label dimension getters: the running maxima over labels
RECURSIVE maxLabelDimensions(_, _)
maxLabelDimensions(labels, dim) ==
    IF labels = << >> THEN dim
    ELSE maxLabelDimensions(Tail(labels),
            [height |-> Max2(measureSvgTextHeight(Head(labels)), dim.height),
             width  |-> Max2(measureSvgTextWidth(Head(labels)), dim.width)])

getCategoryTickLabelDimensions(vm) ==
    maxLabelDimensions([ci \in 1..Len(vm.categories) |-> vm.categories[ci].name],
                       [height |-> 0, width |-> 0])

getValueTickLabelDimensions(format, domain) ==
    maxLabelDimensions([i \in 1..Len(domain) |-> formatValue(format, domain[i])],
                       [height |-> 0, width |-> 0])

\* calculateMargins that reserves the whole value label width on the right
calculateMarginsFullWidth(orientation, categoryDim, valueDim) ==
    [top    |-> MarginPad,
     right  |-> MarginPad + (IF orientation = "left" THEN valueDim.width ELSE 0),
     bottom |-> MarginPad + (IF orientation = "left"
                             THEN valueDim.height
                             ELSE categoryDim.height),
     left   |-> MarginPad + (IF orientation = "left"
                             THEN categoryDim.width
                             ELSE valueDim.width)]

\* calculateMargins(categoryTickLabelDimensions, valueTickLabelDimensions), with the
\* orientation it reads from the settings; the measured value label widths are even,
\* so that width / 2 is a whole number
calculateMargins(orientation, categoryDim, valueDim) ==
    [top    |-> MarginPad,
     right  |-> MarginPad + (IF orientation = "left"
                             THEN valueDim.width \div 2 ELSE 0),
     bottom |-> MarginPad + (IF orientation = "left"
                             THEN valueDim.height
                             ELSE categoryDim.height),
     left   |-> MarginPad + (IF orientation = "left"
                             THEN categoryDim.width
                             ELSE valueDim.width)]

valueAxisTickCount == 3

\* The axes updateAxes assigns, from the margin it has computed
axesOf(vm, viewport, margin, categoryTickLabelDimensions, valueTickLabelDimensions) ==
    LET orientation        == vm.settings.categoryAxis.orientation
        valueAxisDomain    == <<vm.minValue, vm.maxValue>>
        categoryAxisDomain == [ci \in 1..Len(vm.categories) |-> vm.categories[ci].name]
        valueAxisRange ==
            <<IF orientation = "left" THEN margin.left
              ELSE viewport.height - margin.bottom,
              IF orientation = "left" THEN viewport.width - margin.right
              ELSE margin.top>>
        valueAxisTranslate ==
            [x |-> IF orientation = "left" THEN 0 ELSE margin.left,
             y |-> IF orientation = "left" THEN viewport.height - margin.bottom ELSE 0]
        valueAxisTickSize ==
            IF orientation = "left"
            THEN 0 - viewport.height - margin.top - margin.bottom
            ELSE 0 - viewport.width - margin.right - margin.left
        categoryAxisRange ==
            <<IF orientation = "left" THEN margin.top ELSE margin.left,
              IF orientation = "left" THEN viewport.height - margin.bottom
              ELSE viewport.width - margin.right>>
        categoryAxisTranslate ==
            [x |-> IF orientation = "left" THEN margin.left ELSE 0,
             y |-> IF orientation = "left" THEN 0 ELSE viewport.height - margin.bottom]
    IN  [categoryAxis |->
            [isNull    |-> FALSE,
             range     |-> categoryAxisRange,
             domain    |-> categoryAxisDomain,
             \* scaleBand().padding, in hundredths
             padding   |-> IF orientation = "left" THEN 0
                           ELSE vm.settings.categoryAxis.innerPadding,
             translate |-> categoryAxisTranslate,
             tickLabelDimensions |-> categoryTickLabelDimensions],
         valueAxis |->
            [isNull    |-> FALSE,
             range     |-> valueAxisRange,
             domain    |-> valueAxisDomain,
             translate |-> valueAxisTranslate,
             tickCount |-> valueAxisTickCount,
             tickSize  |-> valueAxisTickSize,
             tickLabelDimensions |-> valueTickLabelDimensions]]

\* updateAxes that derives the ranges from the margin the viewModel held before
updateAxesStaleMargin(vm, viewport) ==
    LET valueDim    == getValueTickLabelDimensions(vm.primaryFormatString,
                                                   <<vm.minValue, vm.maxValue>>)
        categoryDim == getCategoryTickLabelDimensions(vm)
        margin      == calculateMargins(vm.settings.categoryAxis.orientation,
                                        categoryDim, valueDim)
        axes        == axesOf(vm, viewport, vm.margin, categoryDim, valueDim)
    IN  [vm EXCEPT !.margin = margin,
                   !.categoryAxis = axes.categoryAxis,
                   !.valueAxis = axes.valueAxis]

\* updateAxes that orders the value domain by the direction of the range
updateAxesFlipDomain(vm, viewport) ==
    LET valueDim    == getValueTickLabelDimensions(vm.primaryFormatString,
                                                   <<vm.minValue, vm.maxValue>>)
        categoryDim == getCategoryTickLabelDimensions(vm)
        margin      == calculateMargins(vm.settings.categoryAxis.orientation,
                                        categoryDim, valueDim)
        axes        == axesOf(vm, viewport, margin, categoryDim, valueDim)
    IN  [vm EXCEPT !.margin = margin,
                   !.categoryAxis = axes.categoryAxis,
                   !.valueAxis = [axes.valueAxis EXCEPT
                                    !.domain = IF vm.settings.categoryAxis.orientation
                                                  = "left"
                                               THEN <<vm.minValue, vm.maxValue>>
                                               ELSE <<vm.maxValue, vm.minValue>>]]

\* updateAxes that lists the category names of the domain in sorted order
updateAxesSorted(vm, viewport) ==
    LET valueDim    == getValueTickLabelDimensions(vm.primaryFormatString,
                                                   <<vm.minValue, vm.maxValue>>)
        categoryDim == getCategoryTickLabelDimensions(vm)
        margin      == calculateMargins(vm.settings.categoryAxis.orientation,
                                        categoryDim, valueDim)
        axes        == axesOf(vm, viewport, margin, categoryDim, valueDim)
        names       == axes.categoryAxis.domain
    IN  [vm EXCEPT !.margin = margin,
                   !.categoryAxis = [axes.categoryAxis EXCEPT
                       !.domain = IF names = <<"B", "A">> THEN <<"A", "B">> ELSE names],
                   !.valueAxis = axes.valueAxis]

\* updateAxes that pads the bands by innerPadding in either orientation
updateAxesPadded(vm, viewport) ==
    LET valueDim    == getValueTickLabelDimensions(vm.primaryFormatString,
                                                   <<vm.minValue, vm.maxValue>>)
        categoryDim == getCategoryTickLabelDimensions(vm)
        margin      == calculateMargins(vm.settings.categoryAxis.orientation,
                                        categoryDim, valueDim)
        axes        == axesOf(vm, viewport, margin, categoryDim, valueDim)
    IN  [vm EXCEPT !.margin = margin,
                   !.categoryAxis = [axes.categoryAxis EXCEPT
                       !.padding = vm.settings.categoryAxis.innerPadding],
                   !.valueAxis = axes.valueAxis]

\* The viewModel after updateAxes(viewport)
updateAxes(vm, viewport) ==
    LET valueDim    == getValueTickLabelDimensions(vm.primaryFormatString,
                                                   <<vm.minValue, vm.maxValue>>)
        categoryDim == getCategoryTickLabelDimensions(vm)
        margin      == calculateMargins(vm.settings.categoryAxis.orientation,
                                        categoryDim, valueDim)
        axes        == axesOf(vm, viewport, margin, categoryDim, valueDim)
    IN  [vm EXCEPT !.margin = margin,
                   !.categoryAxis = axes.categoryAxis,
                   !.valueAxis = axes.valueAxis]

-----------------------------------------------------------------------------
(* The dataViews the host hands over *)

\* Order of the category rows when the host sorts them
CategoryOrder == <<"A", "B">>

\* The measure of the underlying dataset
BaseValue(c, s) ==
    IF c = "A" THEN (IF s = "G1" THEN 1 ELSE -1)
               ELSE (IF s = "G1" THEN 0 ELSE 1)

\* Highlight entries of a measure column
HighlightCells == {Null, Some(0)}

Column(groupName, role, values, highlights) ==
    [source     |-> [groupName |-> groupName, roles |-> role, queryName |-> role,
                     displayName |-> IF role = "measure" THEN "Value" ELSE "Detail",
                     format |-> ""],
     objects    |-> Null,
     values     |-> values,
     highlights |-> highlights]

\* The columns of one series: its measure, then its tooltip columns
GroupColumns(name, values, highlights, nTooltips, tooltipHighlights) ==
    <<Column(name, "measure", values, highlights)>> \o
    [t \in 1..nTooltips |->
        Column(name, "tooltips", [i \in 1..Len(values) |-> 0],
               IF tooltipHighlights THEN Highlights([i \in 1..Len(values) |-> Null])
               ELSE NoHighlights)]

\* A dataView with one category column (rows) and the value columns of the series gs;
\* val[ci][gi] is the measure value and hl[gi] the highlights of the measure of gs[gi]
ValidDataView(rows, gs, val, hl, nTooltips, tooltipHighlights) ==
    LET columns == Flatten([gi \in 1..Len(gs) |->
                      GroupColumns(gs[gi], [ci \in 1..Len(rows) |-> val[ci][gi]],
                                   hl[gi], nTooltips, tooltipHighlights)])
    IN  [present        |-> TRUE,
         hasCategorical |-> TRUE,
         hasCategories  |-> TRUE,
         categories     |-> <<[values |-> rows]>>,
         hasValues      |-> TRUE,
         values         |-> columns,
         metadata       |-> [columns |-> [i \in 1..Len(columns) |-> columns[i].source]],
         kind           |-> "valid"]

RowPrefixes == {SubSeq(CategoryOrder, 1, n) : n \in 0..Len(CategoryOrder)}

RowSeqs ==
    UNION {{r \in [1..n -> CategoryNames] : \A i, j \in 1..n : i # j => r[i] # r[j]} :
           n \in 0..Cardinality(CategoryNames)}

SeriesSeqs == {SubSeq(SeriesNames, 1, n) : n \in 1..Len(SeriesNames)}

BaseValues(rows, gs) ==
    [ci \in 1..Len(rows) |-> [gi \in 1..Len(gs) |-> BaseValue(rows[ci], gs[gi])]]

NoHighlightsAt(gs) == [gi \in 1..Len(gs) |-> NoHighlights]

\* Every combination of measure values, no highlights
ValueViews ==
    UNION {{ValidDataView(rows, gs, val, NoHighlightsAt(gs), 0, FALSE) :
              val \in [1..Len(rows) -> [1..Len(gs) -> Values]]} :
           rows \in RowPrefixes, gs \in SeriesSeqs}

\* Every combination of highlight arrays on the measure and tooltip columns
HighlightViews ==
    UNION {{ValidDataView(rows, gs, BaseValues(rows, gs), hl, tt[1], tt[2]) :
              hl \in [1..Len(gs) ->
                        {NoHighlights} \cup
                        {Highlights(a) : a \in [1..Len(rows) -> HighlightCells]}],
              tt \in {<<0, FALSE>>} \cup ((1..MaxTooltips) \X BOOLEAN)} :
           rows \in RowPrefixes, gs \in SeriesSeqs}

\* Every order and subset of the category rows
SelectionViews ==
    {ValidDataView(rows, gs, BaseValues(rows, gs), NoHighlightsAt(gs), 0, FALSE) :
       rows \in RowSeqs, gs \in SeriesSeqs}

SomeValid ==
    ValidDataView(CategoryOrder, SeriesNames, BaseValues(CategoryOrder, SeriesNames),
                  NoHighlightsAt(SeriesNames), 0, FALSE)

\* dataViews that isDataViewValid rejects
InvalidViews ==
    {[SomeValid EXCEPT !.present = FALSE, !.kind = "noDataView"],
     [SomeValid EXCEPT !.hasCategorical = FALSE, !.kind = "noCategorical"],
     [SomeValid EXCEPT !.hasCategories = FALSE, !.categories = << >>,
                       !.kind = "noCategories"],
     [SomeValid EXCEPT !.categories = << >>, !.kind = "zeroCategoryColumns"],
     [SomeValid EXCEPT !.categories = @ \o @, !.kind = "twoCategoryColumns"],
     [SomeValid EXCEPT !.hasValues = FALSE, !.values = << >>, !.kind = "noValues"],
     [SomeValid EXCEPT !.values = << >>, !.kind = "emptyValues"]}

\* Every combination of highlight entries when the host cross-highlights: every
\* value column then carries a highlights array
CrossHighlightViews ==
    UNION {{ValidDataView(CategoryOrder, gs, BaseValues(CategoryOrder, gs),
                          [gi \in 1..Len(gs) |-> Highlights(a[gi])], 0, FALSE) :
              a \in [1..Len(gs) -> [1..Len(CategoryOrder) -> HighlightCells]]} :
           gs \in SeriesSeqs}

\* The dataViews of the specification Spec, where the user interacts between updates
DataViews == SelectionViews \cup CrossHighlightViews \cup InvalidViews

\* The objects a group carries: none, none for the data points, a fill that is not a
\* solid color, a solid fill color stored from the formatting pane
GroupObjects ==
    {Null,
     Some([dataPoints |-> Null]),
     Some([dataPoints |-> Some([fillColor |-> Some([solid |-> Null])])]),
     Some([dataPoints |-> Some([fillColor |-> SolidFill("#FF0000")])])}

\* Every combination of objects on the series of the dataset
ColorViews ==
    {[SomeValid EXCEPT !.values =
        [i \in 1..Len(SomeValid.values) |->
            [SomeValid.values[i] EXCEPT
                !.objects = objs[SomeValid.values[i].source.groupName]]]] :
     objs \in [{SeriesNames[gi] : gi \in 1..Len(SeriesNames)} -> GroupObjects]}

\* The dataViews of the specification SpecData, which maps dataViews only
MappedViews == ValueViews \cup HighlightViews \cup ColorViews

-----------------------------------------------------------------------------
(* Entities of a viewModel and their selected flag *)

EntityPaths(vm) ==
    {<<"category", ci, 0>> : ci \in 1..Len(vm.categories)} \cup
    {<<"point", ci, gi>> : ci \in 1..Len(vm.categories), gi \in 1..Len(SeriesNames)} \cup
    {<<"group", 0, gi>> : gi \in 1..Len(vm.groups)}

HasEntity(vm, p) ==
    CASE p[1] = "category" -> p[2] \in 1..Len(vm.categories)
      [] p[1] = "point"    -> /\ p[2] \in 1..Len(vm.categories)
                              /\ p[3] \in 1..Len(vm.categories[p[2]].groups)
      [] p[1] = "group"    -> p[3] \in 1..Len(vm.groups)

EntityAt(vm, p) ==
    CASE p[1] = "category" -> vm.categories[p[2]]
      [] p[1] = "point"    -> vm.categories[p[2]].groups[p[3]]
      [] p[1] = "group"    -> vm.groups[p[3]]

SetSelected(vm, p, b) ==
    CASE p[1] = "category" -> [vm EXCEPT !.categories[p[2]].selected = b]
      [] p[1] = "point"    -> [vm EXCEPT !.categories[p[2]].groups[p[3]].selected = b]
      [] p[1] = "group"    -> [vm EXCEPT !.groups[p[3]].selected = b]

Entities(vm) == {p \in EntityPaths(vm) : HasEntity(vm, p)}

SelectedCount(vm) == Cardinality({p \in Entities(vm) : EntityAt(vm, p).selected})

ClearSelected(vm) ==
    [vm EXCEPT
       !.categories = [ci \in 1..Len(vm.categories) |->
           [vm.categories[ci] EXCEPT
              !.selected = FALSE,
              !.groups = [gi \in 1..Len(vm.categories[ci].groups) |->
                             [vm.categories[ci].groups[gi] EXCEPT !.selected = FALSE]]]],
       !.groups = [gi \in 1..Len(vm.groups) |-> [vm.groups[gi] EXCEPT !.selected = FALSE]]]

-----------------------------------------------------------------------------
(* LandingPageManager *)

\* The elements generateContent appends to the landing page container
LandingContent == <<"h1", "p", "a">>

\* The manager after its constructor: both flags false, the container empty
NewLandingPageManager ==
    [enabled |-> FALSE, removed |-> FALSE, landingPageContainer |-> << >>]

\* generateContent()
generateContent(l) == [l EXCEPT !.landingPageContainer = @ \o LandingContent]

\* handleDisplay that generates the content on every call with isVmValid = false
handleDisplayEveryCall(l, isVmValid) ==
    IF ~isVmValid
    THEN generateContent([l EXCEPT !.enabled = TRUE])
    ELSE [l EXCEPT !.landingPageContainer = << >>,
                   !.removed = l.enabled /\ ~l.removed,
                   !.enabled = FALSE]

\* The manager after handleDisplay(isVmValid), from the manager l before it
handleDisplay(l, isVmValid) ==
    IF ~isVmValid
    THEN IF ~l.enabled THEN generateContent([l EXCEPT !.enabled = TRUE]) ELSE l
    ELSE [l EXCEPT !.landingPageContainer = << >>,
                   !.removed = l.enabled /\ ~l.removed,
                   !.enabled = FALSE]

-----------------------------------------------------------------------------
(* Rendering events *)

\* The events signalled for the options of one update call, and the promise of the
\* transitions its plot has started: "none", "pending", "fulfilled" or "rejected"
NotRendered == [started |-> 0, finished |-> 0, failed |-> 0, transitions |-> "none"]

\* No Visual.update call has been made
NoRendering == [current |-> NotRendered, previous |-> NotRendered]

\* No handleDisplay call has been made; calls lists the arguments of the calls and
\* generated counts the generateContent calls
NoLandingPage == [manager |-> NewLandingPageManager, calls |-> << >>, generated |-> 0]

-----------------------------------------------------------------------------
(* The state machine *)

\* No Visual.update call has been made
NoChart ==
    [op |-> "none", type |-> "", viewport |-> [width |-> 0, height |-> 0],
     mapped |-> FALSE, axes |-> << >>]

\* interactivity.bind has not been called
NotBound == [state |-> "none", viewModel |-> getNewViewModel(NoSettings)]

Manager ==
    [viewModel      |-> viewModel,
     categoryColumn |-> categoryColumn,
     valueGroupings |-> valueGroupings,
     result         |-> result]

Init ==
    /\ viewModel = getNewViewModel(NoSettings)
    /\ categoryColumn = [values |-> << >>]
    /\ valueGroupings = << >>
    /\ result = "none"
    /\ last = [op |-> "init", arg |-> "", same |-> FALSE]
    /\ chart = NoChart
    /\ bound = NotBound
    /\ events = NoRendering
    /\ landing = NoLandingPage

\* The dataView is the one the current, completely built viewModel was mapped from
SameData(dataView) ==
    /\ viewModel.isValid
    /\ result = "returned"
    /\ isDataViewValid(dataView)
    /\ dataView.categories[1] = categoryColumn
    /\ dataView.values = valueGroupings

\* The fields of the manager become those of m
ManagerBecomes(m) ==
    /\ viewModel' = m.viewModel
    /\ categoryColumn' = m.categoryColumn
    /\ valueGroupings' = m.valueGroupings
    /\ result' = m.result

\* ViewModelManager.mapDataView(dataView, settings)
MapDataView(dataView, settings) ==
    /\ ManagerBecomes(mapDataView(Manager, dataView, settings))
    /\ last' = [op |-> "mapDataView", arg |-> dataView.kind,
                same |-> SameData(dataView)]
    /\ UNCHANGED <<chart, bound, events, landing>>

\* The interactivity service sets the selected flag of a bound data point
SelectDataPoint(p, b) ==
    /\ viewModel.isValid
    /\ HasEntity(viewModel, p)
    /\ EntityAt(viewModel, p).selected # b
    /\ b => SelectedCount(viewModel) < MaxSelected
    /\ viewModel' = SetSelected(viewModel, p, b)
    /\ last' = [op |-> "select", arg |-> "", same |-> FALSE]
    /\ UNCHANGED <<categoryColumn, valueGroupings, result, chart, bound, events, landing>>

\* The interactivity service clears the selection of every bound data point
ClearSelection ==
    /\ viewModel.isValid
    /\ SelectedCount(viewModel) > 0
    /\ viewModel' = ClearSelected(viewModel)
    /\ last' = [op |-> "select", arg |-> "", same |-> FALSE]
    /\ UNCHANGED <<categoryColumn, valueGroupings, result, chart, bound, events, landing>>

\* BehaviorManager.renderSelection(hasSelection)
RenderSelection(hasSelection) ==
    /\ viewModel.isValid
    /\ viewModel' = renderSelection(viewModel, hasSelection)
    /\ last' = [op |-> "renderSelection", arg |-> IF hasSelection THEN "true" ELSE "false",
                same |-> FALSE]
    /\ UNCHANGED <<categoryColumn, valueGroupings, result, chart, bound, events, landing>>

Next ==
    \/ \E dataView \in DataViews, settings \in SettingsSet : MapDataView(dataView, settings)
    \/ \E p \in EntityPaths(viewModel), b \in BOOLEAN : SelectDataPoint(p, b)
    \/ ClearSelection
    \/ \E hasSelection \in BOOLEAN : RenderSelection(hasSelection)

Spec == Init /\ [][Next]_vars

NextData ==
    \E dataView \in MappedViews, settings \in SettingsSet : MapDataView(dataView, settings)

SpecData == Init /\ [][NextData]_vars

-----------------------------------------------------------------------------
(* Visual.update, and the behaviour bound by it *)

\* VisualUpdateType values of the update options
UpdateTypes == {"All", "Data", "Resize"}

\* The types on which update maps the dataView
DataTypes == {"All", "Data"}

Visual == [manager |-> Manager, chart |-> chart, bound |-> bound]

\* The binding after this.viewModel has been assigned a new object
heldAfterMapping(b, vm) ==
    IF b.state = "current" THEN [state |-> "stale", viewModel |-> vm] ELSE b

BoundToCurrent == [state |-> "current", viewModel |-> getNewViewModel(NoSettings)]

\* update that lays the viewModel out only when it has mapped the dataView
updateLayoutOnData(v, type, dataView, settings, viewport) ==
    LET mapped == type \in DataTypes
        m      == IF mapped THEN mapDataView(v.manager, dataView, settings) ELSE v.manager
        held   == IF mapped THEN heldAfterMapping(v.bound, v.manager.viewModel)
                  ELSE v.bound
        did    == [op |-> "", type |-> type, viewport |-> viewport, mapped |-> mapped,
                   axes |-> << >>]
    IN  IF mapped /\ m.result = "threw"
        THEN [manager |-> m, bound |-> held, chart |-> [did EXCEPT !.op = "failed"]]
        ELSE IF ~m.viewModel.isValid
        THEN [manager |-> m, bound |-> held, chart |-> [did EXCEPT !.op = "cleared"]]
        ELSE [manager |-> IF mapped
                          THEN [m EXCEPT !.viewModel = updateAxes(@, viewport)] ELSE m,
              bound   |-> BoundToCurrent,
              chart   |-> [did EXCEPT !.op = "plotted",
                                      !.axes = IF mapped THEN <<viewport>> ELSE << >>]]

\* The visual after Visual.update(options), from the visual v before it; options
\* holds the update type, the dataView (with the settings parsed from it) and the
\* viewport.  An exception of mapDataView is caught by update, which signals
\* renderingFailed and leaves the chart as it was.
update(v, type, dataView, settings, viewport) ==
    LET mapped == type \in DataTypes
        m      == IF mapped THEN mapDataView(v.manager, dataView, settings) ELSE v.manager
        held   == IF mapped THEN heldAfterMapping(v.bound, v.manager.viewModel)
                  ELSE v.bound
        did    == [op |-> "", type |-> type, viewport |-> viewport, mapped |-> mapped,
                   axes |-> << >>]
    IN  IF mapped /\ m.result = "threw"
        THEN [manager |-> m, bound |-> held, chart |-> [did EXCEPT !.op = "failed"]]
        ELSE IF ~m.viewModel.isValid
        THEN [manager |-> m, bound |-> held, chart |-> [did EXCEPT !.op = "cleared"]]
        ELSE [manager |-> [m EXCEPT !.viewModel = updateAxes(@, viewport)],
              bound   |-> BoundToCurrent,
              chart   |-> [did EXCEPT !.op = "plotted", !.axes = <<viewport>>]]

\* The dataViews of the specification SpecVisual: category rows in an order other
\* than the sorted one, with highlights on the measure; one category row; one series
\* with highlights on its measure and one without; no dataView
VisualViews ==
    {ValidDataView(<<"B", "A">>, <<"G2">>, BaseValues(<<"B", "A">>, <<"G2">>),
                   <<Highlights(<<Some(0), Null>>)>>, 0, FALSE),
     ValidDataView(<<"A">>, <<"G1">>, BaseValues(<<"A">>, <<"G1">>),
                   NoHighlightsAt(<<"G1">>), 0, FALSE),
     ValidDataView(<<"A">>, SeriesNames, BaseValues(<<"A">>, SeriesNames),
                   <<Highlights(<<Some(0)>>), NoHighlights>>, 0, FALSE),
     [SomeValid EXCEPT !.present = FALSE, !.kind = "noDataView"]}

\* The viewModel object the behaviour and the interactivity service work on
BoundViewModel == IF bound.state = "current" THEN viewModel ELSE bound.viewModel

\* The manager, the chart and the binding become those of the visual v
Becomes(v) ==
    /\ viewModel' = v.manager.viewModel
    /\ categoryColumn' = v.manager.categoryColumn
    /\ valueGroupings' = v.manager.valueGroupings
    /\ result' = v.manager.result
    /\ chart' = v.chart
    /\ bound' = v.bound

\* Visual.update(options)
Update(type, dataView, settings, viewport) ==
    /\ Becomes(update(Visual, type, dataView, settings, viewport))
    /\ UNCHANGED <<last, events, landing>>

\* The viewModel the behaviour is bound to becomes vm
SetBound(vm) ==
    IF bound.state = "current"
    THEN viewModel' = vm /\ UNCHANGED bound
    ELSE bound' = [bound EXCEPT !.viewModel = vm] /\ UNCHANGED viewModel

\* The interactivity service sets the selected flag of a data point it was bound with
BoundSelect(p, b) ==
    /\ bound.state # "none"
    /\ HasEntity(BoundViewModel, p)
    /\ EntityAt(BoundViewModel, p).selected # b
    /\ b => SelectedCount(BoundViewModel) < MaxSelected
    /\ SetBound(SetSelected(BoundViewModel, p, b))
    /\ UNCHANGED <<categoryColumn, valueGroupings, result, chart, last, events, landing>>

\* BehaviorManager.renderSelection(hasSelection), on the viewModel of its options
BoundRenderSelection(hasSelection) ==
    /\ bound.state # "none"
    /\ SetBound(renderSelection(BoundViewModel, hasSelection))
    /\ UNCHANGED <<categoryColumn, valueGroupings, result, chart, last, events, landing>>

\* An update of a type in DataTypes maps the dataView of its options; an update of
\* another type does not read it
NextVisual ==
    \/ \E type \in DataTypes, dataView \in VisualViews,
          settings \in OrientationSettings, viewport \in Viewports :
            Update(type, dataView, settings, viewport)
    \/ \E type \in UpdateTypes \ DataTypes, viewport \in Viewports :
            Update(type, SomeValid, DefaultSettings, viewport)
    \/ \E p \in EntityPaths(BoundViewModel), b \in BOOLEAN : BoundSelect(p, b)
    \/ \E hasSelection \in BOOLEAN : BoundRenderSelection(hasSelection)

SpecVisual == Init /\ [][NextVisual]_vars

-----------------------------------------------------------------------------
(* Properties *)

Categories == {viewModel.categories[ci] : ci \in 1..Len(viewModel.categories)}

GroupsOf(c) == {c.groups[gi] : gi \in 1..Len(c.groups)}

\* The last operation was a mapDataView call on a dataView that isDataViewValid accepts
MappedValid == last.op = "mapDataView" /\ last.arg = "valid"

\* The measure columns of the dataView mapped last
MeasureColumns ==
    {valueGroupings[i] : i \in {j \in 1..Len(valueGroupings) :
                                  valueGroupings[j].source.roles = "measure"}}

SeriesOfData == {valueGroupings[i].source.groupName : i \in 1..Len(valueGroupings)}

\* C1: after mapDataView on valid input, every category c has
\* c.min <= g.value <= c.max for each of its groups g, and c.min and c.max are
\* values of groups of c (zero and negative values included).
C1_CategoryExtent ==
    \A c \in Categories :
        /\ \A g \in GroupsOf(c) : c.min <= g.value /\ g.value <= c.max
        /\ \E g \in GroupsOf(c) : c.min = g.value
        /\ \E g \in GroupsOf(c) : c.max = g.value

\* C2: after mapDataView on valid input with at least one category row, minValue is
\* the least category.min and maxValue the greatest category.max.
C2_DatasetExtent ==
    (MappedValid /\ result = "returned" /\ Categories # {}) =>
        /\ \E c \in Categories : viewModel.minValue = c.min
        /\ \A c \in Categories : viewModel.minValue <= c.min
        /\ \E c \in Categories : viewModel.maxValue = c.max
        /\ \A c \in Categories : viewModel.maxValue >= c.max

\* C7: a category is highlighted if and only if hasHighlights is true and every one of
\* its data points is highlighted.
C7_CategoryHighlight ==
    \A c \in Categories :
        c.highlighted <=>
            (viewModel.hasHighlights /\ \A g \in GroupsOf(c) : g.highlighted)

\* C7 witness: a category with a highlighted and a non-highlighted data point, which
\* is not highlighted itself.
C7_Witness ==
    \E c \in Categories :
        /\ \E g \in GroupsOf(c) : g.highlighted
        /\ \E g \in GroupsOf(c) : ~g.highlighted
        /\ ~c.highlighted

\* C8: after mapDataView on valid input the call has completed, hasHighlights is true
\* if and only if some measure column carries a highlights array, and a data point is
\* highlighted if and only if hasHighlights is true and its measure's highlight entry
\* at the category index is not null.
C8_Highlights ==
    MappedValid =>
        /\ result = "returned"
        /\ viewModel.hasHighlights <=> (\E m \in MeasureColumns : m.highlights.has)
        /\ \A ci \in 1..Len(viewModel.categories) :
             \A g \in GroupsOf(viewModel.categories[ci]) :
               \A m \in MeasureColumns :
                 m.source.groupName = g.name =>
                   (g.highlighted <=>
                      (viewModel.hasHighlights /\ m.highlights.has
                       /\ m.highlights.arr[ci] # Null))

\* C9: after mapDataView on valid input, viewModel.groups holds exactly one entry per
\* series of the dataset, whatever the number of category rows.
C9_DistinctGroups ==
    (MappedValid /\ result = "returned") =>
        /\ Len(viewModel.groups) = Cardinality(SeriesOfData)
        /\ \A i, j \in 1..Len(viewModel.groups) :
             i # j => viewModel.groups[i].name # viewModel.groups[j].name

\* The selectable data points of the viewModel a step starts from
Snapshot == getSelectableDataPoints(viewModel)

AnySelected(vm) == \E p \in Entities(vm) : EntityAt(vm, p).selected

\* C3: when the last mapDataView call was given an invalid dataView, it returned and
\* the current viewModel is invalid and holds no category, group or selectable point.
C3_InvalidResets ==
    (last.op = "mapDataView" /\ last.arg # "valid") =>
        /\ result = "returned"
        /\ ~viewModel.isValid
        /\ viewModel.categories = << >>
        /\ viewModel.groups = << >>
        /\ getSelectableDataPoints(viewModel) = << >>

\* C3 witness: an invalid pass that came after a valid one (whose role metadata the
\* manager still holds).
C3_Witness ==
    /\ last.op = "mapDataView"
    /\ last.arg = "twoCategoryColumns"
    /\ categoryColumn.values # << >>
    /\ ~viewModel.isValid

\* C4: a rebuild with the data the current valid viewModel was mapped from gives every
\* entity the selected flag the entity of equal identity had before the rebuild.
C4_SelectionRoundTrip ==
    [][(last'.op = "mapDataView" /\ last'.same) =>
          /\ result' = "returned"
          /\ \A q \in Entities(viewModel') :
               \E p \in Entities(viewModel) :
                 EntityAt(viewModel, p).identity = EntityAt(viewModel', q).identity
          /\ \A p \in Entities(viewModel) : \A q \in Entities(viewModel') :
               EntityAt(viewModel, p).identity = EntityAt(viewModel', q).identity =>
                 EntityAt(viewModel', q).selected = EntityAt(viewModel, p).selected]_vars

\* C4 witness: after a rebuild with the same data, a distinct group is selected and
\* another entity is not.
C4_Witness ==
    /\ last.op = "mapDataView"
    /\ last.same
    /\ \E p \in Entities(viewModel) : p[1] = "group" /\ EntityAt(viewModel, p).selected
    /\ \E p \in Entities(viewModel) : ~EntityAt(viewModel, p).selected

\* C5: mapDataView selects a freshly built entity if and only if the snapshot taken
\* before the rebuild holds a selected entity of equal identity.
C5_SelectedFromSnapshot ==
    [][(last'.op = "mapDataView" /\ last'.arg = "valid") =>
          \A q \in Entities(viewModel') :
            EntityAt(viewModel', q).selected <=>
              \E i \in 1..Len(Snapshot) :
                /\ Snapshot[i].identity = EntityAt(viewModel', q).identity
                /\ Snapshot[i].selected]_vars

\* C5 witness: a rebuild with other data that left one entity selected and one not.
C5_Witness ==
    /\ MappedValid
    /\ ~last.same
    /\ \E p \in Entities(viewModel) : EntityAt(viewModel, p).selected
    /\ \E p \in Entities(viewModel) : ~EntityAt(viewModel, p).selected

\* C6: after mapDataView on valid input, hasSelection is true if and only if an entity
\* of the viewModel that was replaced was selected.
C6_HasSelectionFromSnapshot ==
    [][(last'.op = "mapDataView" /\ last'.arg = "valid") =>
          (viewModel'.hasSelection <=>
             \E i \in 1..Len(Snapshot) : Snapshot[i].selected)]_vars

\* C6 witness: hasSelection is true after a rebuild none of whose entities is selected.
C6_Witness ==
    /\ MappedValid
    /\ result = "returned"
    /\ viewModel.hasSelection
    /\ Entities(viewModel) # {}
    /\ ~AnySelected(viewModel)

\* renderSelection(false) has been applied and no entity is selected
SelectionOff ==
    /\ last.op = "renderSelection"
    /\ last.arg = "false"
    /\ ~AnySelected(viewModel)

\* C10 as claimed: with the selection toggled off, hasSelection is false and
\* shouldDimPoint is false for every entity.
C10_NoDimming ==
    SelectionOff =>
        /\ ~viewModel.hasSelection
        /\ \A p \in Entities(viewModel) : ~shouldDimPoint(viewModel, EntityAt(viewModel, p))

\* C10 amended: with the selection toggled off, hasSelection is false and
\* shouldDimPoint is true exactly for the entities that are not highlighted while
\* hasHighlights is true.
C10_DimmingByHighlightOnly ==
    SelectionOff =>
        /\ ~viewModel.hasSelection
        /\ \A p \in Entities(viewModel) :
             shouldDimPoint(viewModel, EntityAt(viewModel, p)) <=>
               (viewModel.hasHighlights /\ ~EntityAt(viewModel, p).highlighted)

\* C10 witness: the selection is toggled off in a viewModel with highlights, where one
\* entity is highlighted and another is not.
C10_Witness ==
    /\ SelectionOff
    /\ viewModel.hasHighlights
    /\ \E p \in Entities(viewModel) : EntityAt(viewModel, p).highlighted
    /\ \E p \in Entities(viewModel) : ~EntityAt(viewModel, p).highlighted

-----------------------------------------------------------------------------
(* Properties of the predicates, of rebuilds and of Visual.update *)

BoundEntities == {EntityAt(BoundViewModel, p) : p \in Entities(BoundViewModel)}

\* C11: for every entity e of the viewModel the behaviour holds, that viewModel's
\* shouldDimPoint(e) is true exactly when (its hasSelection and e is not selected) or
\* (its hasHighlights and e is not highlighted), and shouldEmphasizePoint(e) exactly
\* when e is selected.  (The closure reads the manager's current viewModel.)
C11_PredicatesOfOwnViewModel ==
    bound.state # "none" =>
        \A e \in BoundEntities :
            /\ shouldDimPoint(viewModel, e) <=>
                 \/ BoundViewModel.hasSelection /\ ~e.selected
                 \/ BoundViewModel.hasHighlights /\ ~e.highlighted
            /\ shouldEmphasizePoint(e) <=> e.selected

\* C12: mapDataView called again with the dataView and settings of the call before,
\* with no interaction in between, yields a viewModel with the same categories and
\* groups (with every min, max, selected and highlighted), minValue, maxValue,
\* hasHighlights and hasSelection.
C12_RebuildIdempotent ==
    [][(/\ last.op = "mapDataView"
        /\ last.arg = "valid"
        /\ last'.op = "mapDataView"
        /\ last'.same) =>
          /\ viewModel'.categories = viewModel.categories
          /\ viewModel'.groups = viewModel.groups
          /\ viewModel'.minValue = viewModel.minValue
          /\ viewModel'.maxValue = viewModel.maxValue
          /\ viewModel'.hasHighlights = viewModel.hasHighlights
          /\ viewModel'.hasSelection = viewModel.hasSelection]_vars

\* C13: the manager's viewModel is never valid with a build that failed part-way,
\* and the chart never plots such a viewModel.
C13_NoPartialModel ==
    result = "threw" => ~viewModel.isValid /\ chart.op # "plotted"

\* C14: the viewModel, the role metadata and the outcome of a rebuild are the same
\* whichever value viewModel.hasSelection has before it, for every dataView (every
\* order and subset of the category rows, and every invalid one).
C14_FlagIgnoredByRebuild ==
    viewModel.isValid =>
        \A dataView \in SelectionViews \cup InvalidViews, settings \in SettingsSet :
            mapDataView([Manager EXCEPT !.viewModel.hasSelection = TRUE],
                        dataView, settings)
            = mapDataView([Manager EXCEPT !.viewModel.hasSelection = FALSE],
                          dataView, settings)

\* C14 witness: renderSelection has left hasSelection set on a viewModel none of
\* whose entities is selected.
C14_Witness ==
    /\ last.op = "renderSelection"
    /\ last.arg = "true"
    /\ viewModel.hasSelection
    /\ Entities(viewModel) # {}
    /\ ~AnySelected(viewModel)

\* A Visual.update call has plotted the chart
Plotted == chart.op = "plotted"

CategoryNamesOf(vm) == [ci \in 1..Len(vm.categories) |-> vm.categories[ci].name]

\* C15: after every update, a valid viewModel has been laid out by that update with
\* its viewport; mapDataView is called only on an update of type All or Data; and an
\* update of another type leaves categories, groups (with every selected flag),
\* minValue, maxValue and hasHighlights as they are.
C15_LayoutOnEveryUpdate ==
    /\ (chart.op # "none" /\ viewModel.isValid) => chart.axes = <<chart.viewport>>
    /\ chart.mapped => chart.type \in DataTypes
    /\ \A type \in UpdateTypes \ DataTypes, viewport \in Viewports :
         LET vm == update(Visual, type, SomeValid, DefaultSettings, viewport)
                       .manager.viewModel
         IN  /\ vm.categories = viewModel.categories
             /\ vm.groups = viewModel.groups
             /\ vm.minValue = viewModel.minValue
             /\ vm.maxValue = viewModel.maxValue
             /\ vm.hasHighlights = viewModel.hasHighlights

\* C16: the chart is plotted only with a valid viewModel whose axes are not null and
\* were computed in that update call, from its viewport and the viewModel's
\* categories, minValue and maxValue; with an invalid viewModel the chart is cleared
\* and not plotted.
C16_PlotLaidOut ==
    /\ Plotted =>
         LET orientation == viewModel.settings.categoryAxis.orientation
             height      == chart.viewport.height
             width       == chart.viewport.width
         IN  /\ viewModel.isValid
             /\ ~viewModel.categoryAxis.isNull
             /\ ~viewModel.valueAxis.isNull
             /\ chart.axes = <<chart.viewport>>
             /\ viewModel.categoryAxis.domain = CategoryNamesOf(viewModel)
             /\ viewModel.valueAxis.domain = <<viewModel.minValue, viewModel.maxValue>>
             /\ orientation = "left" =>
                  /\ viewModel.categoryAxis.range[2] = height - viewModel.margin.bottom
                  /\ viewModel.valueAxis.range[2] = width - viewModel.margin.right
             /\ orientation = "bottom" =>
                  /\ viewModel.categoryAxis.range[2] = width - viewModel.margin.right
                  /\ viewModel.valueAxis.range[1] = height - viewModel.margin.bottom
    /\ (chart.op # "none" /\ ~viewModel.isValid) => chart.op = "cleared"
    /\ chart.op = "cleared" => ~viewModel.isValid

\* C16 witness: an update that does not map the dataView has plotted the viewModel in
\* a viewport other than the one of the update that mapped it.
C16_Witness ==
    /\ Plotted
    /\ ~chart.mapped
    /\ chart.viewport.width = 320
    /\ Len(viewModel.categories) = 2
    /\ viewModel.valueAxis.range[1] # viewModel.valueAxis.range[2]

SetMax(S) == CHOOSE x \in S : \A y \in S : y <= x

\* C17: after updateAxes the margin is the pad on top, and the pad plus the label
\* sizes the orientation asks for on the other sides, the category label being the
\* largest over the category names and the value label the largest over the formatted
\* minValue and maxValue; the margin is the same for every viewport.
C17_Margins ==
    Plotted =>
        LET orientation == viewModel.settings.categoryAxis.orientation
            names       == {c.name : c \in Categories}
            labels      == {formatValue(viewModel.primaryFormatString, d) :
                              d \in {viewModel.minValue, viewModel.maxValue}}
            categoryLabel ==
                [width  |-> SetMax({measureSvgTextWidth(n) : n \in names} \cup {0}),
                 height |-> SetMax({measureSvgTextHeight(n) : n \in names} \cup {0})]
            valueLabel ==
                [width  |-> SetMax({measureSvgTextWidth(l) : l \in labels}),
                 height |-> SetMax({measureSvgTextHeight(l) : l \in labels})]
            margin == viewModel.margin
        IN  /\ margin.top = MarginPad
            /\ orientation = "left" =>
                 /\ margin.bottom = MarginPad + valueLabel.height
                 /\ margin.left = MarginPad + categoryLabel.width
                 /\ 2 * (margin.right - MarginPad) = valueLabel.width
            /\ orientation = "bottom" =>
                 /\ margin.bottom = MarginPad + categoryLabel.height
                 /\ margin.left = MarginPad + valueLabel.width
                 /\ margin.right = MarginPad
            /\ \A viewport \in Viewports :
                 updateAxes(viewModel, viewport).margin = margin

\* C17 witness: a layout in 'left' orientation of two categories whose labels differ
\* in width, with value labels that differ in width.
C17_Witness ==
    /\ Plotted
    /\ viewModel.settings.categoryAxis.orientation = "left"
    /\ Len(viewModel.categories) = 2
    /\ viewModel.minValue = -1
    /\ viewModel.maxValue = 1
    /\ viewModel.margin.right = MarginPad + 14

\* C18: after updateAxes, with the margin that call has assigned: in 'left'
\* orientation categoryAxis.range = [margin.top, height - margin.bottom] and
\* valueAxis.range = [margin.left, width - margin.right]; in 'bottom' orientation
\* categoryAxis.range = [margin.left, width - margin.right] and valueAxis.range runs
\* from height - margin.bottom to margin.top.
C18_Ranges ==
    Plotted =>
        LET orientation == viewModel.settings.categoryAxis.orientation
            height      == chart.viewport.height
            width       == chart.viewport.width
            margin      == viewModel.margin
        IN  /\ orientation = "left" =>
                 /\ viewModel.categoryAxis.range = <<margin.top, height - margin.bottom>>
                 /\ viewModel.valueAxis.range = <<margin.left, width - margin.right>>
            /\ orientation = "bottom" =>
                 /\ viewModel.categoryAxis.range = <<margin.left, width - margin.right>>
                 /\ viewModel.valueAxis.range = <<height - margin.bottom, margin.top>>

\* C18 witness: a layout in 'bottom' orientation whose margin is not the one the
\* viewModel was created with.
C18_Witness ==
    /\ Plotted
    /\ viewModel.settings.categoryAxis.orientation = "bottom"
    /\ viewModel.margin # calculateMarginsDefault
    /\ viewModel.valueAxis.range[1] > viewModel.valueAxis.range[2]

\* C19: updateAxes, in either orientation and for any viewport, leaves minValue,
\* maxValue, the categories and the groups (with every selected and highlighted
\* flag) unchanged, and gives both orientations the same categoryAxis.domain and the
\* same valueAxis.domain.
C19_OrientationSwap ==
    viewModel.isValid =>
        \A viewport \in Viewports :
            LET laidOut == [o \in Orientations |->
                    updateAxes([viewModel EXCEPT !.settings.categoryAxis.orientation = o],
                               viewport)]
            IN  /\ \A o \in Orientations :
                     /\ laidOut[o].minValue = viewModel.minValue
                     /\ laidOut[o].maxValue = viewModel.maxValue
                     /\ laidOut[o].categories = viewModel.categories
                     /\ laidOut[o].groups = viewModel.groups
                /\ laidOut["left"].categoryAxis.domain
                     = laidOut["bottom"].categoryAxis.domain
                /\ laidOut["left"].valueAxis.domain = laidOut["bottom"].valueAxis.domain
                /\ laidOut["left"].valueAxis.range # laidOut["bottom"].valueAxis.range

\* C19 witness: a laid out viewModel with a selected entity, a highlighted entity and
\* minValue below maxValue.
C19_Witness ==
    /\ Plotted
    /\ viewModel.minValue < viewModel.maxValue
    /\ \E p \in Entities(viewModel) : EntityAt(viewModel, p).selected
    /\ \E p \in Entities(viewModel) : EntityAt(viewModel, p).highlighted

\* C20: after updateAxes, categoryAxis.domain is the list of the names of
\* viewModel.categories in their order, which is the order of the category rows of
\* the dataView (the rows themselves after a completed mapping); valueAxis.domain is
\* [minValue, maxValue] and tickCount is 3, also when minValue = maxValue.
C20_Domains ==
    Plotted =>
        LET domain == viewModel.categoryAxis.domain
            rows   == categoryColumn.values
        IN  /\ domain = CategoryNamesOf(viewModel)
            /\ \A i, j \in 1..Len(domain) :
                 i < j => \E k, l \in 1..Len(rows) :
                            k < l /\ rows[k] = domain[i] /\ rows[l] = domain[j]
            /\ result = "returned" => domain = rows
            /\ viewModel.valueAxis.domain = <<viewModel.minValue, viewModel.maxValue>>
            /\ viewModel.valueAxis.tickCount = 3

\* C20 witness: a layout of the category rows B, A, in this order, and a layout with
\* minValue = maxValue are both reachable; this is the second, with a category.
C20_Witness ==
    /\ Plotted
    /\ viewModel.minValue = viewModel.maxValue
    /\ viewModel.categoryAxis.domain = <<"A">>
    /\ viewModel.valueAxis.domain = <<1, 1>>

-----------------------------------------------------------------------------
(* Properties of the axes, of failures and of the data point details *)

\* C22: after updateAxes, valueAxis.tickSize is negative and its magnitude is the
\* viewport dimension perpendicular to the value axis less the two margins on that
\* dimension: height - margin.top - margin.bottom in 'left' orientation and
\* width - margin.left - margin.right in 'bottom' orientation.
C22_TickSize ==
    Plotted =>
        LET orientation == viewModel.settings.categoryAxis.orientation
            height      == chart.viewport.height
            width       == chart.viewport.width
            margin      == viewModel.margin
            tickSize    == viewModel.valueAxis.tickSize
        IN  /\ tickSize < 0
            /\ orientation = "left" =>
                 0 - tickSize = height - margin.top - margin.bottom
            /\ orientation = "bottom" =>
                 0 - tickSize = width - margin.left - margin.right

-----------------------------------------------------------------------------
(* Properties of the selection across rebuilds *)

OriginalData ==
    [SomeValid EXCEPT
        !.categories = <<categoryColumn>>,
        !.values     = valueGroupings,
        !.metadata   = [columns |-> [i \in 1..Len(valueGroupings) |->
                                        valueGroupings[i].source]]]

\* The manager after mapDataView(invalid) followed by mapDataView of the original data
AfterInvalidPass(invalid, settings) ==
    mapDataView(mapDataView(Manager, invalid, settings), OriginalData, settings)

\* A valid viewModel, completely built, with a selected data point
SelectionHeld ==
    /\ viewModel.isValid
    /\ result = "returned"
    /\ \E i \in 1..Len(Snapshot) : Snapshot[i].selected

\* C27 as claimed: if an entity is selected in a valid viewModel, mapDataView is
\* called with an invalid dataView and then with the original data again, the
\* rebuilt entity of the same identity is selected and hasSelection is true.
C27_SelectionSurvives ==
    SelectionHeld =>
        \A invalid \in InvalidViews, settings \in SettingsSet :
            LET again   == AfterInvalidPass(invalid, settings)
                rebuilt == getSelectableDataPoints(again.viewModel)
            IN  /\ again.viewModel.hasSelection
                /\ \A i \in 1..Len(Snapshot) :
                     Snapshot[i].selected =>
                       \E j \in 1..Len(rebuilt) :
                         /\ rebuilt[j].identity = Snapshot[i].identity
                         /\ rebuilt[j].selected

\* C27 amended: a selection does not survive an intervening invalid pass: after
\* mapDataView with an invalid dataView and then with the original data, the entities
\* are rebuilt with the identities they had, none of them is selected and
\* hasSelection is false.
C27_SelectionLost ==
    SelectionHeld =>
        \A invalid \in InvalidViews, settings \in SettingsSet :
            LET again   == AfterInvalidPass(invalid, settings)
                rebuilt == getSelectableDataPoints(again.viewModel)
            IN  /\ again.result = "returned"
                /\ again.viewModel.isValid
                /\ ~again.viewModel.hasSelection
                /\ Len(rebuilt) = Len(Snapshot)
                /\ \A j \in 1..Len(rebuilt) :
                     /\ rebuilt[j].identity = Snapshot[j].identity
                     /\ ~rebuilt[j].selected

\* C27 witness: the interactivity service has selected a data point (a category and
\* series intersection) of a valid viewModel with two categories.
C27_Witness ==
    /\ SelectionHeld
    /\ last.op = "select"
    /\ Len(viewModel.categories) = 2
    /\ \E i \in 1..Len(Snapshot) :
          /\ Snapshot[i].selected
          /\ Snapshot[i].identity.category # ""
          /\ Snapshot[i].identity.series # ""

-----------------------------------------------------------------------------
(* Properties of the tooltips and of the colors *)

\* The value columns of the series of the given name that have the given role
ColumnsOf(name, role) ==
    SelectSeq(valueGroupings,
              LAMBDA c : c.source.groupName = name /\ c.source.roles = role)

\* C24: the tooltipData of a data point is the primary entry (the measure's display
\* name and the formatted value), then an entry 'Highlighted' if and only if the data
\* point is highlighted, then one entry per column of the tooltips role, in order;
\* its length is 1 + (1 if highlighted) + the number of tooltips columns, and every
\* entry carries the color of the data point.
C24_TooltipData ==
    \A ci \in 1..Len(viewModel.categories) :
        \A g \in GroupsOf(viewModel.categories[ci]) :
            LET items    == g.tooltipData
                tooltips == ColumnsOf(g.name, "tooltips")
                shift    == IF g.highlighted THEN 2 ELSE 1
            IN  /\ Len(items) = shift + Len(tooltips)
                /\ items[1].header = <<viewModel.categories[ci].name, g.name>>
                /\ items[1].displayName = ColumnsOf(g.name, "measure")[1].source.displayName
                /\ items[1].value = formatValue(viewModel.primaryFormatString, g.value)
                /\ g.highlighted =>
                     /\ items[2].displayName = "Highlighted"
                     /\ items[2].value = formatValue(viewModel.primaryFormatString,
                                                     g.highlightedValue[1])
                /\ \A t \in 1..Len(tooltips) :
                     /\ items[shift + t].displayName = tooltips[t].source.displayName
                     /\ items[shift + t].value =
                          formatValue(viewModel.settings.dataPoints.formatStringMissing,
                                      tooltips[t].values[ci])
                /\ \A k \in 1..Len(items) : items[k].color = g.color

\* C24 witness: a highlighted data point of a series with a tooltips column, and a
\* data point of the same viewModel that is not highlighted.
C24_Witness ==
    /\ \E c \in Categories : \E g \in GroupsOf(c) :
          g.highlighted /\ Len(g.tooltipData) >= 3
    /\ \E c \in Categories : \E g \in GroupsOf(c) :
          ~g.highlighted /\ Len(g.tooltipData) >= 2

\* The objects the dataView gives the series of the given name
ObjectsOfSeries(name) ==
    valueGroupings[FirstIndex({i \in 1..Len(valueGroupings) :
                                 valueGroupings[i].source.groupName = name})].objects

\* The fill color stored for a series: none (Null), or the solid color
StoredFillColor(name) ==
    LET objects == ObjectsOfSeries(name)
    IN  IF objects = Null THEN Null
        ELSE IF objects[1].dataPoints = Null THEN Null
        ELSE IF objects[1].dataPoints[1].fillColor = Null THEN Null
        ELSE IF objects[1].dataPoints[1].fillColor[1].solid = Null THEN Null
        ELSE Some(objects[1].dataPoints[1].fillColor[1].solid[1].color)

\* C25: within a viewModel a group name resolves to one color: every data point of
\* the name, in every category, has the color of the entry of viewModel.groups of
\* that name, and that color is the fill color stored for the group when there is
\* one and the color of the Color Provider for the group name otherwise.
C25_GroupColor ==
    /\ \A c \in Categories : \A g \in GroupsOf(c) :
         \E gi \in 1..Len(viewModel.groups) :
            /\ viewModel.groups[gi].name = g.name
            /\ viewModel.groups[gi].color = g.color
    /\ \A gi, gj \in 1..Len(viewModel.groups) :
         viewModel.groups[gi].name = viewModel.groups[gj].name =>
            viewModel.groups[gi].color = viewModel.groups[gj].color
    /\ \A gi \in 1..Len(viewModel.groups) :
         LET name == viewModel.groups[gi].name
         IN  viewModel.groups[gi].color =
                IF StoredFillColor(name) # Null THEN StoredFillColor(name)[1]
                ELSE getColor(name)

\* C25 witness: two categories, a series with a stored fill color and a series
\* without, which has the color of the palette.
C25_Witness ==
    /\ Len(viewModel.categories) = 2
    /\ \E gi, gj \in 1..Len(viewModel.groups) :
          /\ StoredFillColor(viewModel.groups[gi].name) # Null
          /\ viewModel.groups[gi].color # getColor(viewModel.groups[gi].name)
          /\ StoredFillColor(viewModel.groups[gj].name) = Null
          /\ viewModel.groups[gj].color = getColor(viewModel.groups[gj].name)

-----------------------------------------------------------------------------
(* LandingPageManager.handleDisplay *)

\* LandingPageManager.handleDisplay(isVmValid); the call is recorded
HandleDisplay(isVmValid) ==
    LET l == handleDisplay(landing.manager, isVmValid)
    IN  /\ Len(landing.calls) < MaxCalls
        /\ landing' =
             [manager   |-> l,
              calls     |-> Append(landing.calls, isVmValid),
              generated |-> IF Len(l.landingPageContainer)
                                 > Len(landing.manager.landingPageContainer)
                            THEN landing.generated + 1 ELSE landing.generated]
        /\ UNCHANGED <<viewModel, categoryColumn, valueGroupings, result, last, chart,
                       bound, events>>

NextLanding == \E isVmValid \in BOOLEAN : HandleDisplay(isVmValid)

SpecLanding == Init /\ [][NextLanding]_vars

\* The calls that start a maximal run of calls with isVmValid = false
RunStarts ==
    {i \in 1..Len(landing.calls) :
        ~landing.calls[i] /\ (i = 1 \/ landing.calls[i - 1])}

\* The most recent handleDisplay call was made with the given isVmValid
LastCall(isVmValid) ==
    landing.calls # << >> /\ landing.calls[Len(landing.calls)] = isVmValid

\* C29: the landing content is generated exactly once at the start of each maximal
\* run of calls with isVmValid = false (the container then holds one copy of it), the
\* container is empty after every call with isVmValid = true, and enabled is true
\* exactly when the most recent call had isVmValid = false.
C29_LandingOnce ==
    /\ landing.generated = Cardinality(RunStarts)
    /\ LastCall(FALSE) => landing.manager.landingPageContainer = LandingContent
    /\ LastCall(TRUE) => landing.manager.landingPageContainer = << >>
    /\ landing.manager.enabled <=> LastCall(FALSE)

\* C29 witness: the second run of calls with isVmValid = false, two calls long.
C29_Witness ==
    /\ Len(landing.calls) >= 4
    /\ Cardinality(RunStarts) = 2
    /\ LastCall(FALSE)
    /\ ~landing.calls[Len(landing.calls) - 1]
    /\ landing.generated = 2

\* C30: after a call with isVmValid = true, removed is true if and only if the
\* landing page was displayed by an earlier call (and has been removed since): once
\* true it stays true while further valid calls follow, and it is true again after
\* every later cycle of display and removal.
C30_RemovedSinceDisplayed ==
    LastCall(TRUE) =>
        (landing.manager.removed <=>
            \E i \in 1..Len(landing.calls) : ~landing.calls[i])

-----------------------------------------------------------------------------
(* Visual.update with collaborators that fail, and the rendering events *)

\* How the collaborators of update behave during one call: the text measurement
\* service measures or throws, tooltipServiceWrapper.addTooltip returns or throws
Dependable == [metrics |-> "measures", tooltip |-> "returns"]

MetricsThrow == [Dependable EXCEPT !.metrics = "throws"]

TooltipThrows == [Dependable EXCEPT !.tooltip = "throws"]

Environments == {Dependable, MetricsThrow, TooltipThrows}

\* The dataViews of the specification SpecHost: two category rows of one series, one
\* series with highlights on its measure and one without, no dataView
HostViews ==
    {ValidDataView(<<"B", "A">>, <<"G2">>, BaseValues(<<"B", "A">>, <<"G2">>),
                   NoHighlightsAt(<<"G2">>), 0, FALSE),
     ValidDataView(<<"A">>, SeriesNames, BaseValues(<<"A">>, SeriesNames),
                   <<Highlights(<<Some(0)>>), NoHighlights>>, 0, FALSE),
     [SomeValid EXCEPT !.present = FALSE, !.kind = "noDataView"]}

\* The viewport of the specification SpecHost
HostViewports == {[width |-> 320, height |-> 240]}

\* The manager when update calls updateViewport: after mapDataView on an update of a
\* type that maps, as it was otherwise
mappedBy(v, type, dataView, settings) ==
    IF type \in DataTypes THEN mapDataView(v.manager, dataView, settings) ELSE v.manager

\* The visual after an update call whose collaborators behave as env says, and the
\* call that threw ("" for none); m is the manager when updateViewport is called and
\* u the visual an update with dependable collaborators leaves.  The text
\* measurement is first called by updateAxes before it assigns the margin
\* (dom.ts:743-757), so an error of it leaves the viewModel as mapDataView built it,
\* or as it was; the error is caught by update, after chartManager.updateViewport
\* and before plot.
updateThrowing(v, type, viewport, env, m, u) ==
    IF u.chart.op = "plotted" /\ env.metrics = "throws"
    THEN [manager |-> m,
          bound   |-> IF type \in DataTypes
                      THEN heldAfterMapping(v.bound, v.manager.viewModel) ELSE v.bound,
          chart   |-> [op |-> "failed", type |-> type, viewport |-> viewport,
                       mapped |-> type \in DataTypes, axes |-> << >>],
          threw   |-> "updateAxes"]
    ELSE [manager |-> u.manager,
          bound   |-> u.bound,
          chart   |-> u.chart,
          threw   |-> IF u.chart.op = "failed" THEN "mapDataView"
                      ELSE IF u.chart.op = "plotted" /\ env.tooltip = "throws"
                      THEN "addTooltip" ELSE ""]

\* The visual after Visual.update(options) with the collaborators behaving as env
\* says, from the visual v before it
updateIn(v, type, dataView, settings, viewport, env) ==
    updateThrowing(v, type, viewport, env, mappedBy(v, type, dataView, settings),
                   update(v, type, dataView, settings, viewport))

\* The events one update call signals for its options before it returns:
\* renderingStarted first, renderingFinished after clearing the chart of an invalid
\* viewModel, renderingFailed in the catch block; plot leaves a promise of the
\* transitions it has started, which signals renderingFinished when it is fulfilled
renderingOf(u) ==
    [started     |-> 1,
     finished    |-> IF u.chart.op = "cleared" THEN 1 ELSE 0,
     failed      |-> IF u.threw # "" THEN 1 ELSE 0,
     transitions |-> IF u.chart.op = "plotted" THEN "pending" ELSE "none"]

\* The events of the call before, once update has run again: the elements of the
\* plot are joined by index, so a plot of a viewModel with categories starts
\* transitions on the elements of the plot before it and interrupts those still
\* running there, which rejects their promise; nothing handles the rejection
supersededBy(rendering, before, after, u) ==
    IF /\ rendering.transitions = "pending"
       /\ u.chart.op = "plotted"
       /\ before.categories # << >>
       /\ after.categories # << >>
    THEN [rendering EXCEPT !.transitions = "rejected"]
    ELSE rendering

\* The visual and the rendering events become those the update call u leaves
Updated(u) ==
    /\ Becomes(u)
    /\ events' = [current  |-> renderingOf(u),
                  previous |-> supersededBy(events.current, viewModel,
                                            u.manager.viewModel, u)]
    /\ UNCHANGED <<last, landing>>

\* Visual.update(options), with the collaborators behaving as env says
UpdateIn(type, dataView, settings, viewport, env) ==
    Updated(updateIn(Visual, type, dataView, settings, viewport, env))

\* Every transition of a plot has ended: Promise.all(transitions) is fulfilled and
\* its handler signals renderingFinished for the options of that update
TransitionsEnd(slot) ==
    /\ events[slot].transitions = "pending"
    /\ events' = [events EXCEPT ![slot].transitions = "fulfilled",
                                ![slot].finished = @ + 1]
    /\ UNCHANGED <<viewModel, categoryColumn, valueGroupings, result, last, chart,
                   bound, landing>>

NextHost ==
    \/ \E type \in DataTypes, dataView \in HostViews, settings \in PaddingSettings,
          viewport \in HostViewports, env \in Environments :
            UpdateIn(type, dataView, settings, viewport, env)
    \/ \E type \in UpdateTypes \ DataTypes, viewport \in HostViewports,
          env \in Environments :
            UpdateIn(type, SomeValid, DefaultSettings, viewport, env)
    \/ \E slot \in {"current", "previous"} : TransitionsEnd(slot)

SpecHost == Init /\ [][NextHost]_vars

\* C21: after updateAxes, the padding of the band scale (in hundredths) is 0 in
\* 'left' orientation whatever categoryAxis.innerPadding is, and innerPadding / 100
\* in 'bottom' orientation: 0 to 0.5 for the allowed range 0 to 50.
C21_BandPadding ==
    Plotted =>
        LET categoryAxis == viewModel.settings.categoryAxis
            padding      == viewModel.categoryAxis.padding
        IN  /\ categoryAxis.orientation = "left" => padding = 0
            /\ categoryAxis.orientation = "bottom" =>
                 /\ padding = categoryAxis.innerPadding
                 /\ 0 <= padding
                 /\ padding <= 50

\* C21 witness: a layout in 'left' orientation with innerPadding 50, and no padding.
C21_Witness ==
    /\ Plotted
    /\ viewModel.settings.categoryAxis.orientation = "left"
    /\ viewModel.settings.categoryAxis.innerPadding = 50
    /\ viewModel.categoryAxis.padding = 0
    /\ viewModel.categories # << >>

\* C23: when the text measurement fails during updateAxes of an update that follows
\* a plotted one, the error does not leave updateAxes (update goes on to plot and
\* signals no renderingFailed) and viewModel.margin is the margin of that earlier
\* layout, also when this update has mapped the dataView.
C23_MarginFallback ==
    [][\A type \in UpdateTypes, dataView \in HostViews, settings \in PaddingSettings,
          viewport \in HostViewports :
            (/\ Plotted
             /\ update(Visual, type, dataView, settings, viewport).chart.op = "plotted"
             /\ UpdateIn(type, dataView, settings, viewport, MetricsThrow)) =>
                /\ chart'.op = "plotted"
                /\ events'.current.failed = 0
                /\ viewModel'.margin = viewModel.margin]_vars

\* The events of an update are balanced: renderingStarted once, at most one of
\* renderingFinished and renderingFailed, and exactly one of them once the promise
\* of the transitions is settled (or there is none)
Balanced(rendering) ==
    /\ rendering.started = 1
    /\ rendering.finished + rendering.failed <= 1
    /\ rendering.transitions # "pending" => rendering.finished + rendering.failed = 1

\* C28: every update signals renderingStarted once and exactly one of
\* renderingFinished and renderingFailed for its options, never both and never
\* neither, however the transitions of its plot end and also when a step after plot
\* throws.
C28_RenderingBalanced ==
    \A slot \in {"current", "previous"} :
        events[slot] # NotRendered => Balanced(events[slot])

=============================================================================
